---- MODULE Spec2Model ----
(***************************************************************************)
(* The device-state-to-entity binding and command-dispatch layer of the    *)
(* EcoFlow Smart Home Panel integration: the State Document, the select    *)
(* and text entities that project it, and the command synthesis of the     *)
(* (public) Smart Home Panel device catalog.                               *)
(***************************************************************************)
EXTENDS Integers, Sequences, FiniteSets, TLC

(***************************************************************************)
(* Bounds of the model.                                                    *)
(***************************************************************************)
\* Number of events (telemetry messages, refreshes, user actions) in a behaviour.
MaxSteps == 2

(***************************************************************************)
(* Python values.  A value of the State Document is None, an int or a str. *)
(***************************************************************************)
None == [none |-> TRUE]
IntVal(n) == [int |-> n]
StrVal(s) == [str |-> s]

\* int(x) for an int value (None raises TypeError: callers guard it)
PyInt(x) == x.int

(***************************************************************************)
(* Program constants.                                                      *)
(***************************************************************************)
NumLoadChannels == 10
NumBackupChannels == 2
LoadChannels == 0 .. (NumLoadChannels - 1)
BackupChannels == 0 .. (NumBackupChannels - 1)
\* The events of a behaviour concern the first and the last load channel
\* (the entities of all channels exist and are evaluated).
EventChannels == {0, NumLoadChannels - 1}

(***************************************************************************)
(* Field paths.  A parsed path expression is the sequence of its steps     *)
(* (a quoted name is one step, even when it contains dots); a plain        *)
(* dictionary key is a single step made of the whole string.               *)
(***************************************************************************)
IdxText == [i \in LoadChannels |-> "[" \o ToString(i) \o "]"]
\* channel_num = i + 1: the number a channel is displayed with
ChannelNum(i) == i + 1
Idx(i) == IdxText[i]

\* f"heartbeat.loadCmdChCtrlInfos[{i}].ctrlMode" parsed as a path expression
CtrlModeKey(i) == <<"heartbeat", "loadCmdChCtrlInfos", Idx(i), "ctrlMode">>
\* f"heartbeat.loadCmdChCtrlInfos[{i}].ctrlSta" parsed as a path expression
CtrlStaKey(i) == <<"heartbeat", "loadCmdChCtrlInfos", Idx(i), "ctrlSta">>
\* the same text used as a plain dictionary key by params.get(...)
CtrlStaFlatKey(channel) == "heartbeat.loadCmdChCtrlInfos" \o Idx(channel) \o ".ctrlSta"

\* "'backupChaDiscCfg.discLower'" etc.: quoted names are single steps
DiscLowerKey == <<"backupChaDiscCfg.discLower">>
ForceChargeHighKey == <<"backupChaDiscCfg.forceChargeHigh">>
\* the older device model binds the levels to the plain names
LegacyDiscLowerKey == <<"discLower">>
LegacyForceChargeHighKey == <<"forceChargeHigh">>
GridVolKey == <<"gridInfo.gridVol">>
GridFreqKey == <<"gridInfo.gridFreq">>
BackupModeKey == <<"emergencyStrategy.backupMode">>
OverloadModeKey == <<"emergencyStrategy.overloadMode">>
\* f"'emergencyStrategy.chSta'[{i}].priority" and ...isEnable
ChStaPriorityKey(i) == <<"emergencyStrategy.chSta", Idx(i), "priority">>
ChStaIsEnableKey(i) == <<"emergencyStrategy.chSta", Idx(i), "isEnable">>
\* the plain dictionary keys read by _create_emergency_mode_command
ChStaPriorityFlatKey(i) == "emergencyStrategy.chSta" \o Idx(i) \o ".priority"
ChStaIsEnableFlatKey(i) == "emergencyStrategy.chSta" \o Idx(i) \o ".isEnable"
\* f"'loadChInfo.info'[{i}].chName" and the plain key of the icon number
ChNameKey(i) == <<"loadChInfo.info", Idx(i), "chName">>
IconNumFlatKey(channel) == "loadChInfo.info" \o Idx(channel) \o ".iconNum"
\* f"'loadChCurInfo.cur'[{i}]"
ChCurKey(i) == <<"loadChCurInfo.cur", Idx(i)>>
\* f"heartbeat.backupCmdChCtrlInfos[{i}].ctrlMode" and ...ctrlSta
BackupCtrlModeKey(i) == <<"heartbeat", "backupCmdChCtrlInfos", Idx(i), "ctrlMode">>
BackupCtrlStaKey(i) == <<"heartbeat", "backupCmdChCtrlInfos", Idx(i), "ctrlSta">>
EpsKey == <<"epsModeInfo.eps">>

(***************************************************************************)
(* The State Document (device.data.params) and its two read accesses.      *)
(***************************************************************************)
\* expr.find(data): a path expression resolves to zero or one value
Find(key, data) == IF key \in DOMAIN data THEN <<data[key]>> ELSE <<>>

\* data.get(key, default) on the top-level dictionary
DictGet(data, key, default) == IF <<key>> \in DOMAIN data THEN data[<<key>>] ELSE default

\* a partial update adds or overwrites the keys of its payload only
UpdateDoc(data, payload) ==
    [k \in DOMAIN data \cup DOMAIN payload |->
        IF k \in DOMAIN payload THEN payload[k] ELSE data[k]]

EmptyDoc == [k \in {} |-> None]

(***************************************************************************)
(* Options Mappings: insertion-ordered sequences of <<label, value>>.      *)
(***************************************************************************)
Labels(options) == [n \in 1 .. Len(options) |-> options[n][1]]
LabelSet(options) == {options[n][1] : n \in 1 .. Len(options)}
\* options[option] (the last pair of a label wins, as in a dict literal)
OptionValue(options, option) ==
    LET hits == {n \in 1 .. Len(options) : options[n][1] = option}
    IN  options[CHOOSE n \in hits : \A m \in hits : m <= n][2]

\* Auto (0), Grid (1), Battery (2), Off (3)
CIRCUIT_MODE_OPTIONS ==
    << <<"Auto", IntVal(0)>>, <<"Grid", IntVal(1)>>, <<"Battery", IntVal(2)>>, <<"Off", IntVal(3)>> >>

(***************************************************************************)
(* DictSelectEntity._update_value: the labels whose value equals val; the  *)
(* displayed option changes only when exactly one label matches.  The      *)
(* result is the new _current_option and the returned flag.                *)
(***************************************************************************)
\* mutant: a value that no single label maps is displayed as such
DictSelectUpdateValueMarked(options, cur, val) ==
    LET lval == SelectSeq(options, LAMBDA kv : kv[2] = val)
    IN  IF Len(lval) = 1
        THEN [current_option |-> lval[1][1], ret |-> TRUE]
        ELSE [current_option |-> "unknown", ret |-> FALSE]

\* mutant: the displayed option is never replaced
DictSelectUpdateValueStale(options, cur, val) ==
    LET lval == SelectSeq(options, LAMBDA kv : kv[2] = val)
    IN  [current_option |-> cur, ret |-> Len(lval) = 1]

DictSelectUpdateValue(options, cur, val) ==
    LET lval == SelectSeq(options, LAMBDA kv : kv[2] = val)
    IN  IF Len(lval) = 1
        THEN [current_option |-> lval[1][1], ret |-> TRUE]
        ELSE [current_option |-> cur, ret |-> FALSE]

(***************************************************************************)
(* CircuitModeSelectEntity._update_value: the combined mode computed from  *)
(* ctrlMode (val) and the ctrlSta found in the State Document.             *)
(***************************************************************************)
\* mutant: the manual modes are not offset by one
CombinedValueNoOffset(ctrl_mode, ctrl_sta) == IF ctrl_mode = 0 THEN 0 ELSE ctrl_sta

CombinedValue(ctrl_mode, ctrl_sta) == IF ctrl_mode = 0 THEN 0 ELSE 1 + ctrl_sta

\* mutant: the secondary field is not looked up, its default is used
CtrlStaOfDefault(sta_values) == 0

CtrlStaOf(sta_values) ==
    IF Len(sta_values) > 0
    THEN (IF sta_values[1] # None THEN PyInt(sta_values[1]) ELSE 0)
    ELSE 0

CircuitModeUpdateValue(options, cur, val, ctrl_sta_key, data) ==
    LET ctrl_mode == IF val # None THEN PyInt(val) ELSE 0
        ctrl_sta == CtrlStaOf(Find(ctrl_sta_key, data))
        combined_value == CombinedValue(ctrl_mode, ctrl_sta)
    IN  DictSelectUpdateValue(options, cur, IntVal(combined_value))

(***************************************************************************)
(* TextConfigEntity._update_value: None projects to the empty string; the  *)
(* flag tells whether the cached native value changed.                     *)
(***************************************************************************)
PyStr(x) == IF "str" \in DOMAIN x THEN x.str ELSE ToString(x.int)

TextUpdateValue(cur, val) ==
    LET str_val == IF val # None THEN PyStr(val) ELSE ""
    IN  IF cur # str_val
        THEN [native_value |-> str_val, ret |-> TRUE]
        ELSE [native_value |-> cur, ret |-> FALSE]

(***************************************************************************)
(* MQTT command framing (_create_mqtt_command).  rid is the value drawn by *)
(* random.randint(100000, 999999); command parameters are merged last.     *)
(***************************************************************************)
MinCorrelationId == 100000
MaxCorrelationId == 999999
CorrelationIds == {MinCorrelationId, MaxCorrelationId}

\* mutant: the drawn number is also stamped into the payload
CreateMqttCommandStamped(rid, cmdSet, cmdId, cmdParams) ==
    [id |-> rid,
     moduleType |-> 1,
     operateType |-> "TCP",
     version |-> "1.0",
     params |-> cmdParams @@ [cmdSet |-> cmdSet, id |-> cmdId, seq |-> rid]]

\* mutant: the framing of the older device model (module type 0, no version)
CreateMqttCommandLegacy(rid, cmdSet, cmdId, cmdParams) ==
    [id |-> rid,
     moduleType |-> 0,
     operateType |-> "TCP",
     params |-> cmdParams @@ [cmdSet |-> cmdSet, id |-> cmdId]]

CreateMqttCommand(rid, cmdSet, cmdId, cmdParams) ==
    [id |-> rid,
     moduleType |-> 1,
     operateType |-> "TCP",
     version |-> "1.0",
     params |-> cmdParams @@ [cmdSet |-> cmdSet, id |-> cmdId]]

(***************************************************************************)
(* _create_circuit_mode_command: mode 0 = Auto keeps the sta looked up in  *)
(* the snapshot (default 0); 1 = Grid, 2 = Battery, anything else = Off.   *)
(***************************************************************************)
\* mutant: the combined mode code is sent as the control mode
CircuitModeCtrlModeRaw(mode) == mode

CircuitModeCtrlMode(mode) == IF mode = 0 THEN 0 ELSE 1

\* mutant: sta is the mode code itself, not the mode code less one
CircuitModeStaShifted(channel, mode, data) ==
    IF mode = 0 THEN DictGet(data, CtrlStaFlatKey(channel), IntVal(0)) ELSE IntVal(mode)

CircuitModeSta(channel, mode, data) ==
    IF mode = 0 THEN DictGet(data, CtrlStaFlatKey(channel), IntVal(0))
    ELSE IF mode = 1 THEN IntVal(0)
    ELSE IF mode = 2 THEN IntVal(1)
    ELSE IntVal(2)

CreateCircuitModeCommand(rid, channel, mode, data) ==
    CreateMqttCommand(rid, 11, 16,
        [ch |-> channel,
         ctrlMode |-> CircuitModeCtrlMode(mode),
         sta |-> CircuitModeSta(channel, mode, data)])

\* _make_circuit_mode_command_factory(channel)(value, params)
CircuitModeCommand(rid, channel, value, data) ==
    CreateCircuitModeCommand(rid, channel, PyInt(value), data)

(***************************************************************************)
(* Two-parameter commands of numbers() and selects(): the edited field     *)
(* and its companion read from the snapshot, with a default.               *)
(***************************************************************************)
\* mutant: the companion level is always sent as its default
MinLevelCommandDefaulted(rid, value, data) ==
    CreateMqttCommand(rid, 11, 29, [discLower |-> PyInt(value), forceChargeHigh |-> 100])

MinLevelCommand(rid, value, data) ==
    CreateMqttCommand(rid, 11, 29,
        [discLower |-> PyInt(value),
         forceChargeHigh |-> PyInt(DictGet(data, "backupChaDiscCfg.forceChargeHigh", IntVal(100)))])

\* mutant: the companion level is always sent as its default
MaxLevelCommandDefaulted(rid, value, data) ==
    CreateMqttCommand(rid, 11, 29, [forceChargeHigh |-> PyInt(value), discLower |-> 0])

MaxLevelCommand(rid, value, data) ==
    CreateMqttCommand(rid, 11, 29,
        [forceChargeHigh |-> PyInt(value),
         discLower |-> PyInt(DictGet(data, "backupChaDiscCfg.discLower", IntVal(0)))])

(***************************************************************************)
(* The circuit-mode select of the older device model: the MODES table, the *)
(* projection of the channel's control record and the command of a label.  *)
(***************************************************************************)
MODES ==
    << <<"Auto", [sta |-> IntVal(0), ctrlMode |-> IntVal(0)]>>,
       <<"Grid", [sta |-> IntVal(0), ctrlMode |-> IntVal(1)]>>,
       <<"Battery", [sta |-> IntVal(1), ctrlMode |-> IntVal(1)]>>,
       <<"Off", [sta |-> IntVal(2), ctrlMode |-> IntVal(1)]>> >>

\* ModeDictSelectEntity._update_value(val), val the record of the channel
ModeDictUpdateValue(cur, val) ==
    DictSelectUpdateValue(MODES, cur, [sta |-> val.ctrlSta, ctrlMode |-> val.ctrlMode])

\* the command lambda of ModeDictSelectEntity for channel n
ModeDictCommand(n, value) ==
    [moduleType |-> 0,
     operateType |-> "TCP",
     params |-> [sta |-> value.sta, ctrlMode |-> value.ctrlMode, ch |-> n,
                 cmdSet |-> 11, id |-> 16]]

\* the level commands of the older device model (no correlation id)
LegacyMaxLevelCommand(value, data) ==
    [moduleType |-> 0,
     operateType |-> "TCP",
     params |-> [discLower |-> PyInt(DictGet(data, "discLower", IntVal(0))),
                 forceChargeHigh |-> value,
                 cmdSet |-> 11,
                 id |-> 29]]

LegacyMinLevelCommand(value, data) ==
    [moduleType |-> 0,
     operateType |-> "TCP",
     params |-> [discLower |-> value,
                 forceChargeHigh |-> PyInt(DictGet(data, "forceChargeHigh", IntVal(100))),
                 cmdSet |-> 11,
                 id |-> 29]]

\* mutant: the companion frequency is left out when it was never observed
GridVolCommandNoDefault(rid, value, data) ==
    CreateMqttCommand(rid, 11, 22,
        IF GridFreqKey \in DOMAIN data
        THEN [gridVol |-> PyInt(value), gridFreq |-> PyInt(data[GridFreqKey])]
        ELSE [gridVol |-> PyInt(value)])

GridVolCommand(rid, value, data) ==
    CreateMqttCommand(rid, 11, 22,
        [gridVol |-> PyInt(value),
         gridFreq |-> PyInt(DictGet(data, "gridInfo.gridFreq", IntVal(60)))])

GridFreqCommand(rid, value, data) ==
    CreateMqttCommand(rid, 11, 22,
        [gridVol |-> PyInt(DictGet(data, "gridInfo.gridVol", IntVal(120))),
         gridFreq |-> PyInt(value)])

(***************************************************************************)
(* _create_emergency_mode_command: the channel status array is built from  *)
(* the snapshot by plain dictionary lookups, defaults priority=i and       *)
(* isEnable=1.                                                             *)
(***************************************************************************)
EmergencyChSta(data) ==
    [n \in 1 .. NumLoadChannels |->
        [priority |-> PyInt(DictGet(data, ChStaPriorityFlatKey(n - 1), IntVal(n - 1))),
         isEnable |-> PyInt(DictGet(data, ChStaIsEnableFlatKey(n - 1), IntVal(1)))]]

CreateEmergencyModeCommand(rid, backupMode, overloadMode, data) ==
    CreateMqttCommand(rid, 11, 64,
        [isCfg |-> 1,
         backupMode |-> backupMode,
         overloadMode |-> overloadMode,
         chSta |-> EmergencyChSta(data)])

EmergencyBackupCommand(rid, value, data) ==
    CreateEmergencyModeCommand(rid, PyInt(value),
        PyInt(DictGet(data, "emergencyStrategy.overloadMode", IntVal(0))), data)

EmergencyOverloadCommand(rid, value, data) ==
    CreateEmergencyModeCommand(rid,
        PyInt(DictGet(data, "emergencyStrategy.backupMode", IntVal(0))), PyInt(value), data)

\* _make_emergency_channel_command(channel)(value, params)
EmergencyChannelCommand(rid, channel, value, data) ==
    CreateMqttCommand(rid, 11, 26, [chNum |-> channel, isEnable |-> PyInt(value)])

\* _make_circuit_name_command(channel)(value, params)
CircuitNameCommand(rid, channel, value, data) ==
    CreateMqttCommand(rid, 11, 32,
        [chNum |-> channel,
         info |-> [chName |-> value,
                   iconInfo |-> PyInt(DictGet(data, IconNumFlatKey(channel), IntVal(0)))]])

\* mutant: the channel is addressed by its displayed number
ChannelCurrentCommandDisplayed(rid, channel, value, data) ==
    CreateMqttCommand(rid, 11, 20, [chNum |-> ChannelNum(channel), cur |-> PyInt(value)])

\* _make_channel_current_command(channel)(value, params)
ChannelCurrentCommand(rid, channel, value, data) ==
    CreateMqttCommand(rid, 11, 20, [chNum |-> channel, cur |-> PyInt(value)])

\* _make_backup_mode_command(channel)(value, params)
BackupModeCommand(rid, channel, value, data) ==
    CreateMqttCommand(rid, 11, 17,
        [ch |-> 10 + channel, ctrlMode |-> PyInt(value), sta |-> 1])

\* the EPS mode switch: lambda value: ... {"eps": 1 if value else 0}
EpsCommand(rid, value) ==
    CreateMqttCommand(rid, 11, 24, [eps |-> IF value # 0 THEN 1 ELSE 0])

\* mutant: the backup channel is addressed by its own index
BackupSwitchCommandUnshifted(rid, idx, value) ==
    CreateMqttCommand(rid, 11, 17,
        [ch |-> idx,
         ctrlMode |-> IF value # 0 THEN 1 ELSE 0,
         sta |-> IF value # 0 THEN 1 ELSE 0])

\* the switch of a backup channel (_create_backup_channel_switch)
BackupSwitchCommand(rid, idx, value) ==
    CreateMqttCommand(rid, 11, 17,
        [ch |-> 10 + idx,
         ctrlMode |-> IF value # 0 THEN 1 ELSE 0,
         sta |-> IF value # 0 THEN 1 ELSE 0])

\* _create_rtc_sync_command, now being the value of datetime.now()
RtcSyncCommand(rid, now) ==
    CreateMqttCommand(rid, 11, 3,
        [year |-> now.year, month |-> now.month, day |-> now.day,
         hour |-> now.hour, min |-> now.minute, sec |-> now.second,
         week |-> now.isoweekday])

\* the command of a button of buttons()
ButtonNames == {"reset", "selfCheck", "rtcSync", "cfgComplete", "getCfgSta"}
ButtonCommand(name, rid, now) ==
    CASE name = "reset" -> CreateMqttCommand(rid, 1, 20, <<>>)
      [] name = "selfCheck" -> CreateMqttCommand(rid, 11, 112, [selfCheckType |-> 1])
      [] name = "rtcSync" -> RtcSyncCommand(rid, now)
      [] name = "cfgComplete" -> CreateMqttCommand(rid, 11, 7, [cfgSta |-> 1])
      [] name = "getCfgSta" -> CreateMqttCommand(rid, 11, 8, <<>>)

(***************************************************************************)
(* Device catalog: the select and text entities of the Smart Home Panel,   *)
(* the field path each is bound to and its Options Mapping.                *)
(***************************************************************************)
CircuitModeIds == {<<"circuit_mode", i>> : i \in LoadChannels}
GridSelectIds == {<<"grid_vol", 0>>, <<"grid_freq", 0>>}
EmergencySelectIds == {<<"emergency_backup", 0>>, <<"emergency_overload", 0>>}
CurrentLimitIds == {<<"current_limit", i>> : i \in LoadChannels}
BackupModeIds == {<<"backup_mode", i>> : i \in BackupChannels}
SelectIds ==
    CircuitModeIds \cup GridSelectIds \cup EmergencySelectIds
        \cup CurrentLimitIds \cup BackupModeIds
TextIds == {<<"circuit_name", i>> : i \in LoadChannels}
EntityIds == SelectIds \cup TextIds
\* the per-channel numbers and switches of numbers() and switches()
ChannelCurrentIds == {<<"channel_current", i>> : i \in LoadChannels}
CircuitEnabledIds == {<<"circuit_enabled", i>> : i \in LoadChannels}
BackupSwitchIds == {<<"backup_channel", i>> : i \in BackupChannels}

\* the titles given as f-strings in selects() and texts()
Title(e) ==
    CASE e[1] = "circuit_mode" -> "Circuit " \o ToString(ChannelNum(e[2])) \o " Mode"
      [] e[1] = "current_limit" -> "Circuit " \o ToString(ChannelNum(e[2])) \o " Current Limit"
      [] e[1] = "backup_mode" -> "Backup Channel " \o ToString(ChannelNum(e[2])) \o " Mode"
      [] e[1] = "circuit_name" -> "Circuit " \o ToString(ChannelNum(e[2])) \o " Name"

MqttKeyOf(e) ==
    CASE e[1] = "circuit_mode" -> CtrlModeKey(e[2])
      [] e[1] = "grid_vol" -> GridVolKey
      [] e[1] = "grid_freq" -> GridFreqKey
      [] e[1] = "emergency_backup" -> BackupModeKey
      [] e[1] = "emergency_overload" -> OverloadModeKey
      [] e[1] = "circuit_name" -> ChNameKey(e[2])
      [] e[1] = "current_limit" -> ChCurKey(e[2])
      [] e[1] = "backup_mode" -> BackupCtrlModeKey(e[2])

MqttKeys == [e \in EntityIds |-> MqttKeyOf(e)]
MqttKey(e) == MqttKeys[e]

GRID_VOLTAGE_OPTIONS == << <<"120V", IntVal(120)>>, <<"240V", IntVal(240)>> >>
GRID_FREQUENCY_OPTIONS == << <<"50Hz", IntVal(50)>>, <<"60Hz", IntVal(60)>> >>
EMERGENCY_BACKUP_MODE_OPTIONS == << <<"Disabled", IntVal(0)>>, <<"Enabled", IntVal(1)>> >>
EMERGENCY_OVERLOAD_MODE_OPTIONS == << <<"Disabled", IntVal(0)>>, <<"Enabled", IntVal(1)>> >>
CHANNEL_CURRENT_OPTIONS == << <<"6A", IntVal(6)>>, <<"13A", IntVal(13)>>, <<"30A", IntVal(30)>> >>
CHANNEL_CONTROL_MODE_OPTIONS == << <<"Auto", IntVal(0)>>, <<"Manual", IntVal(1)>> >>

CatalogOptions(e) ==
    CASE e[1] = "circuit_mode" -> CIRCUIT_MODE_OPTIONS
      [] e[1] = "grid_vol" -> GRID_VOLTAGE_OPTIONS
      [] e[1] = "grid_freq" -> GRID_FREQUENCY_OPTIONS
      [] e[1] = "emergency_backup" -> EMERGENCY_BACKUP_MODE_OPTIONS
      [] e[1] = "emergency_overload" -> EMERGENCY_OVERLOAD_MODE_OPTIONS
      [] e[1] = "current_limit" -> CHANNEL_CURRENT_OPTIONS
      [] e[1] = "backup_mode" -> CHANNEL_CONTROL_MODE_OPTIONS

\* the command strategy the catalog binds to a select or text entity
CatalogCommand(e, rid, value, data) ==
    CASE e[1] = "circuit_mode" -> CircuitModeCommand(rid, e[2], value, data)
      [] e[1] = "grid_vol" -> GridVolCommand(rid, value, data)
      [] e[1] = "grid_freq" -> GridFreqCommand(rid, value, data)
      [] e[1] = "emergency_backup" -> EmergencyBackupCommand(rid, value, data)
      [] e[1] = "emergency_overload" -> EmergencyOverloadCommand(rid, value, data)
      [] e[1] = "circuit_name" -> CircuitNameCommand(rid, e[2], value, data)
      [] e[1] = "current_limit" -> ChannelCurrentCommand(rid, e[2], value, data)
      [] e[1] = "backup_mode" -> BackupModeCommand(rid, e[2], value, data)

(***************************************************************************)
(* State.                                                                  *)
(***************************************************************************)
VARIABLES
    params,          \* the State Document: resolved path -> value
    options_dict,    \* select entity -> its Options Mapping (_options_dict)
    command,         \* entity -> whether a command strategy is bound (_command)
    current_option,  \* select entity -> displayed option (_current_option)
    native_value,    \* text entity -> displayed text (_attr_native_value)
    available,       \* entity -> _attr_available
    changed,         \* entity -> whether its last evaluation signalled a change
    sent,            \* the commands handed to the transport, oldest first
    lastOp,          \* the event handled last
    steps            \* number of events handled

vars == <<params, options_dict, command, current_option, native_value,
          available, changed, sent, lastOp, steps>>

(***************************************************************************)
(* Entity evaluation against a State Document: the path is resolved; when  *)
(* it matches, the entity is available and its projection decides the      *)
(* displayed value and the change signal; when it does not, the entity is  *)
(* unavailable (a change if it was available).                             *)
(***************************************************************************)
SelectUpdateValue(e, val, data) ==
    IF e[1] = "circuit_mode"
    THEN CircuitModeUpdateValue(options_dict[e], current_option[e], val,
                                CtrlStaKey(e[2]), data)
    ELSE DictSelectUpdateValue(options_dict[e], current_option[e], val)

SelectUpdated(e, data) ==
    LET values == Find(MqttKey(e), data)
    IN  IF Len(values) = 1
        THEN LET r == SelectUpdateValue(e, values[1], data)
             IN  [value |-> r.current_option, ret |-> r.ret, avail |-> TRUE]
        ELSE [value |-> current_option[e], ret |-> available[e], avail |-> FALSE]

TextUpdated(e, data) ==
    LET values == Find(MqttKey(e), data)
    IN  IF Len(values) = 1
        THEN LET r == TextUpdateValue(native_value[e], values[1])
             IN  [value |-> r.native_value, ret |-> r.ret, avail |-> TRUE]
        ELSE [value |-> native_value[e], ret |-> available[e], avail |-> FALSE]

Updated(e, data) == IF e \in TextIds THEN TextUpdated(e, data) ELSE SelectUpdated(e, data)

\* every entity of the device re-evaluates against data
ApplyState(data) ==
    LET u == [e \in EntityIds |-> Updated(e, data)]
    IN  /\ current_option' = [e \in SelectIds |-> u[e].value]
        /\ native_value' = [e \in TextIds |-> u[e].value]
        /\ available' = [e \in EntityIds |-> u[e].avail]
        /\ changed' = [e \in EntityIds |-> u[e].ret]

\* client.send_set_message(sn, mqtt_state, command): the optimistic local
\* update of the State Document, the command handed to the transport, and
\* the entities re-evaluated against the updated document
SendSetMessage(mqtt_state, cmd) ==
    /\ params' = UpdateDoc(params, mqtt_state)
    /\ sent' = Append(sent, cmd)
    /\ ApplyState(params')

\* self._options = list(options.keys()): the options offered by a select
Options(e) == Labels(options_dict[e])

\* mutant: the strategy is used without checking that one is bound
CommandAssumed(e) == TRUE

\* `if self._command:` of select_option and set_value
CommandBound(e) == command[e]

\* command_dict(value): the strategy called with the value and the snapshot
CommandDict(e, rid, value) == CatalogCommand(e, rid, value, params)

(***************************************************************************)
(* Initial state: the entities as constructed by the catalog, nothing      *)
(* received yet.                                                           *)
(***************************************************************************)
Init ==
    /\ params = EmptyDoc
    /\ options_dict = [e \in SelectIds |-> CatalogOptions(e)]
    /\ command = [e \in EntityIds |-> TRUE]
    /\ current_option = [e \in SelectIds |-> ""]
    /\ native_value = [e \in TextIds |-> ""]
    /\ available = [e \in EntityIds |-> FALSE]
    /\ changed = [e \in EntityIds |-> FALSE]
    /\ sent = <<>>
    /\ lastOp = [op |-> "init"]
    /\ steps = 0

Step == steps < MaxSteps /\ steps' = steps + 1

(***************************************************************************)
(* Telemetry: a partial update of the State Document, then every entity    *)
(* re-evaluates.                                                           *)
(***************************************************************************)
Telemetry(payload) ==
    /\ Step
    /\ params' = UpdateDoc(params, payload)
    /\ ApplyState(params')
    /\ lastOp' = [op |-> "telemetry", payload |-> payload]
    /\ UNCHANGED <<options_dict, command, sent>>

\* the same State Document applied once more
Refresh ==
    /\ Step
    /\ ApplyState(params)
    /\ lastOp' = [op |-> "refresh"]
    /\ UNCHANGED <<params, options_dict, command, sent>>

CtrlModeValues == {IntVal(0), IntVal(1), IntVal(2), None}
CtrlStaValues == {IntVal(0), IntVal(1), IntVal(2), IntVal(3), None}
Opt(S) == {<<>>} \cup {<<v>> : v \in S}

\* a payload with at most one value for each of two paths
Payload2(k1, o1, k2, o2) ==
    [k \in {k \in {k1} : o1 # <<>>} \cup {k \in {k2} : o2 # <<>>} |->
        IF k = k1 THEN o1[1] ELSE o2[1]]

\* a heartbeat carrying ctrlMode, ctrlSta or both of one load channel
TelemetryCircuit ==
    \E ch \in EventChannels, m \in Opt(CtrlModeValues), s \in Opt(CtrlStaValues) :
        /\ <<m, s>> # << <<>>, <<>> >>
        /\ Telemetry(Payload2(CtrlModeKey(ch), m, CtrlStaKey(ch), s))

(***************************************************************************)
(* CircuitModeSelectEntity.select_option                                   *)
(***************************************************************************)
\* mutant: the local update also writes the supply state of the selection
CircuitModeMqttStateBoth(e, combined_val) ==
    IF combined_val = IntVal(0)
    THEN MqttKey(e) :> IntVal(0)
    ELSE (MqttKey(e) :> IntVal(1)) @@ (CtrlStaKey(e[2]) :> IntVal(PyInt(combined_val) - 1))

\* {self._mqtt_key_adopted: actual_ctrl_mode}: the local state update
CircuitModeMqttState(e, combined_val) ==
    LET actual_ctrl_mode == IF combined_val = IntVal(0) THEN 0 ELSE 1
    IN  MqttKey(e) :> IntVal(actual_ctrl_mode)

CircuitSelectOption(e, option, rid) ==
    /\ Step
    /\ lastOp' = [op |-> "select_option", entity |-> e, option |-> option]
    /\ UNCHANGED <<options_dict, command>>
    /\ IF CommandBound(e)
       THEN LET combined_val == OptionValue(options_dict[e], option)
            IN  SendSetMessage(CircuitModeMqttState(e, combined_val),
                               CommandDict(e, rid, combined_val))
       ELSE UNCHANGED <<params, sent, current_option, native_value, available, changed>>

SelectCircuitMode ==
    \E ch \in EventChannels, option \in LabelSet(CIRCUIT_MODE_OPTIONS), rid \in CorrelationIds :
        CircuitSelectOption(<<"circuit_mode", ch>>, option, rid)

(***************************************************************************)
(* DictSelectEntity.select_option and TextConfigEntity.set_value           *)
(***************************************************************************)
DictSelectOption(e, option, rid) ==
    /\ Step
    /\ lastOp' = [op |-> "select_option", entity |-> e, option |-> option]
    /\ UNCHANGED <<options_dict, command>>
    /\ IF CommandBound(e)
       THEN LET val == OptionValue(options_dict[e], option)
            IN  SendSetMessage(MqttKey(e) :> val, CommandDict(e, rid, val))
       ELSE UNCHANGED <<params, sent, current_option, native_value, available, changed>>

TextSetValue(e, value, rid) ==
    /\ Step
    /\ lastOp' = [op |-> "set_value", entity |-> e, value |-> value]
    /\ UNCHANGED <<options_dict, command>>
    /\ IF CommandBound(e)
       THEN SendSetMessage(MqttKey(e) :> StrVal(value), CommandDict(e, rid, value))
       ELSE UNCHANGED <<params, sent, current_option, native_value, available, changed>>

SelectGrid ==
    \E e \in GridSelectIds, rid \in CorrelationIds :
        \E option \in LabelSet(options_dict[e]) : DictSelectOption(e, option, rid)

SelectEmergency ==
    \E e \in EmergencySelectIds, rid \in CorrelationIds :
        \E option \in LabelSet(options_dict[e]) : DictSelectOption(e, option, rid)

SelectCurrentLimit ==
    \E ch \in EventChannels, rid \in CorrelationIds :
        \E option \in LabelSet(options_dict[<<"current_limit", ch>>]) :
            DictSelectOption(<<"current_limit", ch>>, option, rid)

SelectBackupMode ==
    \E e \in BackupModeIds, rid \in CorrelationIds :
        \E option \in LabelSet(options_dict[e]) : DictSelectOption(e, option, rid)

\* one select of each kind of selects(), set to the last of its options
SelectKindSample ==
    {<<"circuit_mode", 0>>, <<"current_limit", NumLoadChannels - 1>>,
     <<"backup_mode", NumBackupChannels - 1>>}
        \cup GridSelectIds \cup EmergencySelectIds

SelectLastOption ==
    \E e \in SelectKindSample, rid \in CorrelationIds :
        LET option == options_dict[e][Len(options_dict[e])][1]
        IN  IF e \in CircuitModeIds
            THEN CircuitSelectOption(e, option, rid)
            ELSE DictSelectOption(e, option, rid)

NewNames == {"Garage"}

SetCircuitName ==
    \E ch \in EventChannels, value \in NewNames, rid \in CorrelationIds :
        TextSetValue(<<"circuit_name", ch>>, value, rid)

(***************************************************************************)
(* Number entities and switches of the catalog: the user's value is sent   *)
(* with the entity's command and written to the entity's field.            *)
(***************************************************************************)
NumberIds == {<<"min_level", 0>>, <<"max_level", 0>>,
              <<"grid_vol_setting", 0>>, <<"grid_freq_setting", 0>>,
              <<"legacy_min_level", 0>>, <<"legacy_max_level", 0>>}
                 \cup ChannelCurrentIds

NumberKey(n) ==
    CASE n[1] = "min_level" -> DiscLowerKey
      [] n[1] = "max_level" -> ForceChargeHighKey
      [] n[1] = "grid_vol_setting" -> GridVolKey
      [] n[1] = "grid_freq_setting" -> GridFreqKey
      [] n[1] = "legacy_min_level" -> LegacyDiscLowerKey
      [] n[1] = "legacy_max_level" -> LegacyForceChargeHighKey
      [] n[1] = "channel_current" -> ChCurKey(n[2])

NumberCommand(n, rid, value, data) ==
    CASE n[1] = "min_level" -> MinLevelCommand(rid, value, data)
      [] n[1] = "max_level" -> MaxLevelCommand(rid, value, data)
      [] n[1] = "grid_vol_setting" -> GridVolCommand(rid, value, data)
      [] n[1] = "grid_freq_setting" -> GridFreqCommand(rid, value, data)
      [] n[1] = "legacy_min_level" -> LegacyMinLevelCommand(value, data)
      [] n[1] = "legacy_max_level" -> LegacyMaxLevelCommand(value, data)
      [] n[1] = "channel_current" -> ChannelCurrentCommand(rid, n[2], value, data)

SetNativeValue(n, value, rid) ==
    /\ Step
    /\ lastOp' = [op |-> "set_native_value", entity |-> n, value |-> value]
    /\ UNCHANGED <<options_dict, command>>
    /\ SendSetMessage(NumberKey(n) :> IntVal(value),
                      NumberCommand(n, rid, IntVal(value), params))

NewValues(n) ==
    CASE n[1] = "min_level" -> {10}
      [] n[1] = "max_level" -> {95}
      [] n[1] = "grid_vol_setting" -> {230}
      [] n[1] = "grid_freq_setting" -> {50}
      [] n[1] = "legacy_min_level" -> {10}
      [] n[1] = "legacy_max_level" -> {95}
      [] n[1] = "channel_current" -> {16}

SetLevel ==
    \E n \in {<<"min_level", 0>>, <<"max_level", 0>>}, rid \in CorrelationIds :
        \E value \in NewValues(n) : SetNativeValue(n, value, rid)

SetLegacyLevel ==
    \E n \in {<<"legacy_min_level", 0>>, <<"legacy_max_level", 0>>} :
        \E value \in NewValues(n) : SetNativeValue(n, value, MinCorrelationId)

SetGridSetting ==
    \E n \in {<<"grid_vol_setting", 0>>, <<"grid_freq_setting", 0>>}, rid \in CorrelationIds :
        \E value \in NewValues(n) : SetNativeValue(n, value, rid)

SetChannelCurrent ==
    \E ch \in EventChannels, rid \in CorrelationIds :
        \E value \in NewValues(<<"channel_current", ch>>) :
            SetNativeValue(<<"channel_current", ch>>, value, rid)

\* the emergency-enable switch of a channel turned on (1) or off (0)
EmergencySwitchTurn(ch, value, rid) ==
    /\ Step
    /\ lastOp' = [op |-> "turn", entity |-> <<"circuit_enabled", ch>>, value |-> value]
    /\ UNCHANGED <<options_dict, command>>
    /\ SendSetMessage(ChStaIsEnableKey(ch) :> IntVal(value),
                      EmergencyChannelCommand(rid, ch, IntVal(value), params))

EmergencySwitch ==
    \E ch \in EventChannels, value \in {0, 1}, rid \in CorrelationIds :
        EmergencySwitchTurn(ch, value, rid)

\* the EPS mode switch and the switch of a backup channel, on (1) or off (0)
EpsSwitchTurn(value, rid) ==
    /\ Step
    /\ lastOp' = [op |-> "turn", entity |-> <<"eps_mode", 0>>, value |-> value]
    /\ UNCHANGED <<options_dict, command>>
    /\ SendSetMessage(EpsKey :> IntVal(value), EpsCommand(rid, value))

EpsSwitch == \E value \in {0, 1}, rid \in CorrelationIds : EpsSwitchTurn(value, rid)

BackupSwitchTurn(idx, value, rid) ==
    /\ Step
    /\ lastOp' = [op |-> "turn", entity |-> <<"backup_channel", idx>>, value |-> value]
    /\ UNCHANGED <<options_dict, command>>
    /\ SendSetMessage(BackupCtrlStaKey(idx) :> IntVal(value),
                      BackupSwitchCommand(rid, idx, value))

BackupSwitch ==
    \E idx \in BackupChannels, value \in {0, 1}, rid \in CorrelationIds :
        BackupSwitchTurn(idx, value, rid)

\* a button pressed: its command is handed to the transport
Clock == {[year |-> 2026, month |-> 1, day |-> 4, hour |-> 0, minute |-> 0,
           second |-> 59, isoweekday |-> 7]}

ButtonPress(name, rid, now) ==
    /\ Step
    /\ lastOp' = [op |-> "press", entity |-> <<"button", name>>]
    /\ sent' = Append(sent, ButtonCommand(name, rid, now))
    /\ UNCHANGED <<params, options_dict, command, current_option, native_value,
                   available, changed>>

PressButton ==
    \E name \in ButtonNames, rid \in CorrelationIds, now \in Clock :
        ButtonPress(name, rid, now)

(***************************************************************************)
(* Telemetry of the other fields.                                          *)
(***************************************************************************)
DiscLowerValues == {IntVal(20)}
ForceChargeHighValues == {IntVal(90)}
GridVolValues == {IntVal(120), IntVal(230)}
GridFreqValues == {IntVal(50)}
EmergencyModeValues == {IntVal(1)}
PriorityValues == {IntVal(5)}
IsEnableValues == {IntVal(0)}
ChNameValues == {StrVal("Kitchen"), None}

TelemetryPair(k1, S1, k2, S2) ==
    \E o1 \in Opt(S1), o2 \in Opt(S2) :
        /\ <<o1, o2>> # << <<>>, <<>> >>
        /\ Telemetry(Payload2(k1, o1, k2, o2))

TelemetryLevels ==
    TelemetryPair(DiscLowerKey, DiscLowerValues, ForceChargeHighKey, ForceChargeHighValues)

TelemetryLegacyLevels ==
    TelemetryPair(LegacyDiscLowerKey, DiscLowerValues,
                  LegacyForceChargeHighKey, ForceChargeHighValues)

TelemetryGrid == TelemetryPair(GridVolKey, GridVolValues, GridFreqKey, GridFreqValues)

TelemetryEmergencyModes ==
    TelemetryPair(BackupModeKey, EmergencyModeValues, OverloadModeKey, EmergencyModeValues)

TelemetryChSta ==
    \E ch \in EventChannels :
        TelemetryPair(ChStaPriorityKey(ch), PriorityValues, ChStaIsEnableKey(ch), IsEnableValues)

TelemetryNames ==
    \E ch \in EventChannels, v \in ChNameValues : Telemetry(ChNameKey(ch) :> v)

BackupCtrlModeValues == {IntVal(0), IntVal(1)}
BackupCtrlStaValues == {IntVal(0)}
ChCurValues == {IntVal(13), IntVal(20)}

\* a heartbeat carrying ctrlMode, ctrlSta or both of one backup channel
TelemetryBackup ==
    \E ch \in BackupChannels :
        TelemetryPair(BackupCtrlModeKey(ch), BackupCtrlModeValues,
                      BackupCtrlStaKey(ch), BackupCtrlStaValues)

\* a heartbeat carrying the ctrlSta of one load channel
TelemetryCtrlSta ==
    \E ch \in EventChannels, v \in CtrlStaValues : Telemetry(CtrlStaKey(ch) :> v)

TelemetryCurrent ==
    \E ch \in EventChannels, v \in ChCurValues : Telemetry(ChCurKey(ch) :> v)

(***************************************************************************)
(* Specifications.                                                         *)
(***************************************************************************)
\* the circuit-mode entities of the load channels
NextCircuit == TelemetryCircuit \/ SelectCircuitMode \/ Refresh

SpecCircuit == Init /\ [][NextCircuit]_vars

\* the two-parameter commands: battery levels, grid settings, emergency modes
NextMerge ==
    \/ TelemetryLevels
    \/ TelemetryLegacyLevels
    \/ TelemetryGrid
    \/ TelemetryEmergencyModes
    \/ TelemetryChSta
    \/ SetLevel
    \/ SetLegacyLevel
    \/ SetGridSetting
    \/ SelectGrid
    \/ SelectEmergency
    \/ EmergencySwitch
    \/ Refresh

SpecMerge == Init /\ [][NextMerge]_vars

\* entities created with no command strategy
InitReadOnly ==
    /\ params = EmptyDoc
    /\ options_dict = [e \in SelectIds |-> CatalogOptions(e)]
    /\ command = [e \in EntityIds |-> FALSE]
    /\ current_option = [e \in SelectIds |-> ""]
    /\ native_value = [e \in TextIds |-> ""]
    /\ available = [e \in EntityIds |-> FALSE]
    /\ changed = [e \in EntityIds |-> FALSE]
    /\ sent = <<>>
    /\ lastOp = [op |-> "init"]
    /\ steps = 0

TelemetryFirstCircuit ==
    \E m \in Opt(CtrlModeValues), s \in Opt(CtrlStaValues) :
        /\ <<m, s>> # << <<>>, <<>> >>
        /\ Telemetry(Payload2(CtrlModeKey(0), m, CtrlStaKey(0), s))

NextReadOnly ==
    \/ TelemetryFirstCircuit
    \/ TelemetryGrid
    \/ TelemetryNames
    \/ SelectCircuitMode
    \/ SelectGrid
    \/ SetCircuitName
    \/ Refresh

SpecReadOnly == InitReadOnly /\ [][NextReadOnly]_vars

\* the dictionary-backed selects and the text entities
NextPlain ==
    \/ TelemetryGrid
    \/ TelemetryNames
    \/ TelemetryBackup
    \/ SelectGrid
    \/ SelectBackupMode
    \/ SetCircuitName
    \/ Refresh

SpecPlain == Init /\ [][NextPlain]_vars

\* the user actions of every entity of the catalog that has a command
NextCatalog ==
    \/ SelectLastOption
    \/ SetCircuitName
    \/ SetLevel
    \/ SetGridSetting
    \/ SetChannelCurrent
    \/ EmergencySwitch
    \/ EpsSwitch
    \/ BackupSwitch
    \/ PressButton

SpecCatalog == Init /\ [][NextCatalog]_vars

\* the user actions of the per-channel entities of the load channels
NextChannels ==
    \/ TelemetryCurrent
    \/ SelectCircuitMode
    \/ SelectCurrentLimit
    \/ SetChannelCurrent
    \/ EmergencySwitch
    \/ SetCircuitName

SpecChannels == Init /\ [][NextChannels]_vars

\* the commands addressed to load circuits and to backup channels
NextAddress ==
    \/ TelemetryCtrlSta
    \/ TelemetryBackup
    \/ SelectCircuitMode
    \/ SelectBackupMode
    \/ BackupSwitch

SpecAddress == Init /\ [][NextAddress]_vars

(***************************************************************************)
(* Properties.                                                             *)
(***************************************************************************)
LastSent == sent[Len(sent)]
UserOps == {"select_option", "set_value", "set_native_value", "turn", "press"}
\* the last event was a user action on entity e that used its command strategy
Invoked(e) ==
    /\ lastOp.op \in UserOps
    /\ lastOp.entity = e
    /\ e \in EntityIds => CommandBound(e)
InvokedKind(kinds) ==
    /\ lastOp.op \in UserOps
    /\ lastOp.entity[1] \in kinds
    /\ Invoked(lastOp.entity)

\* C1: after select_option(L) on a circuit-mode select, the displayed option
\* is L and the optimistic value of the primary field is 0 for Auto and 1
\* for Grid, Battery and Off.
C1_OptimisticCircuitMode ==
    InvokedKind({"circuit_mode"}) =>
        /\ current_option[lastOp.entity] = lastOp.option
        /\ params[MqttKey(lastOp.entity)] = IntVal(IF lastOp.option = "Auto" THEN 0 ELSE 1)

\* C2: applying the same State Document twice in a row signals no change on
\* the second application, for every entity.
C2_Idempotent == lastOp.op = "refresh" => \A e \in EntityIds : ~changed[e]

\* C3: once a dictionary-backed select has applied a raw value that is not
\* mapped by exactly one label, it reports no label as its current option.
NotUniquelyMapped(options, v) ==
    Cardinality({n \in 1 .. Len(options) : options[n][2] = v}) # 1
C3_FailClosed ==
    \A e \in GridSelectIds \cup EmergencySelectIds :
        (MqttKey(e) \in DOMAIN params /\ NotUniquelyMapped(options_dict[e], params[MqttKey(e)]))
            => (~available[e] \/ current_option[e] \notin LabelSet(options_dict[e]))

\* C4: for every label and channel, the (ctrlMode, sta) of the synthesized
\* circuit-mode command recomposes, by the entity's forward derivation with
\* ctrlSta := sta, to the same label, whatever the snapshot.
Recompose(i, ctrlMode, sta) ==
    CircuitModeUpdateValue(CIRCUIT_MODE_OPTIONS, "", IntVal(ctrlMode),
                           CtrlStaKey(i), CtrlStaKey(i) :> sta).current_option
\* the State Document and, for the first and last channel, the same with a
\* value under the plain key that the synthesis looks up for channel i
Snapshots(i) ==
    {params} \cup
    IF i \in EventChannels
    THEN {UpdateDoc(params, <<CtrlStaFlatKey(i)>> :> v) : v \in {IntVal(2), None}}
    ELSE {}
C4_RoundTrip ==
    \A i \in LoadChannels, n \in 1 .. Len(CIRCUIT_MODE_OPTIONS) :
        \A data \in Snapshots(i) :
            LET cmd == CircuitModeCommand(MinCorrelationId, i, CIRCUIT_MODE_OPTIONS[n][2], data)
            IN  Recompose(i, cmd.params.ctrlMode, cmd.params.sta) = CIRCUIT_MODE_OPTIONS[n][1]
C4_Witness ==
    /\ InvokedKind({"circuit_mode"})
    /\ lastOp.option = "Battery"
    /\ LastSent.params.ctrlMode = 1
    /\ LastSent.params.sta = IntVal(1)
    /\ Recompose(lastOp.entity[2], LastSent.params.ctrlMode, LastSent.params.sta) = "Battery"

\* C5: with ctrlMode in {0,1} and ctrlSta in {0,1,2} present in the State
\* Document, the circuit-mode entity displays Auto for ctrlMode=0 and, for
\* ctrlMode=1, Grid, Battery or Off for ctrlSta 0, 1 or 2.
ExpectedMode(m, s) ==
    IF m = IntVal(0) THEN "Auto"
    ELSE IF s = IntVal(0) THEN "Grid"
    ELSE IF s = IntVal(1) THEN "Battery"
    ELSE "Off"
C5_ForwardDerivation ==
    \A i \in LoadChannels :
        (/\ CtrlModeKey(i) \in DOMAIN params
         /\ CtrlStaKey(i) \in DOMAIN params
         /\ params[CtrlModeKey(i)] \in {IntVal(0), IntVal(1)}
         /\ params[CtrlStaKey(i)] \in {IntVal(0), IntVal(1), IntVal(2)})
        => current_option[<<"circuit_mode", i>>]
               = ExpectedMode(params[CtrlModeKey(i)], params[CtrlStaKey(i)])
C5_Witness ==
    \E i \in LoadChannels :
        /\ CtrlModeKey(i) \in DOMAIN params /\ params[CtrlModeKey(i)] = IntVal(1)
        /\ CtrlStaKey(i) \in DOMAIN params /\ params[CtrlStaKey(i)] = IntVal(2)
        /\ current_option[<<"circuit_mode", i>>] = "Off"

\* C6: when the max charge level is edited to x and the min discharge level m
\* has been observed, the command (cmdSet 11, id 29) carries forceChargeHigh=x
\* and discLower=m; when the min level is edited to y and the max level M has
\* been observed, it carries discLower=y and forceChargeHigh=M.  The same
\* holds of the level commands of the older device model.
C6_LevelMerge ==
    /\ (Invoked(<<"max_level", 0>>) /\ DiscLowerKey \in DOMAIN params) =>
           /\ LastSent.params.cmdSet = 11 /\ LastSent.params.id = 29
           /\ LastSent.params.forceChargeHigh = lastOp.value
           /\ LastSent.params.discLower = PyInt(params[DiscLowerKey])
    /\ (Invoked(<<"min_level", 0>>) /\ ForceChargeHighKey \in DOMAIN params) =>
           /\ LastSent.params.cmdSet = 11 /\ LastSent.params.id = 29
           /\ LastSent.params.discLower = lastOp.value
           /\ LastSent.params.forceChargeHigh = PyInt(params[ForceChargeHighKey])
    /\ (Invoked(<<"legacy_max_level", 0>>) /\ LegacyDiscLowerKey \in DOMAIN params) =>
           /\ LastSent.params.cmdSet = 11 /\ LastSent.params.id = 29
           /\ LastSent.params.forceChargeHigh = IntVal(lastOp.value)
           /\ LastSent.params.discLower = PyInt(params[LegacyDiscLowerKey])
    /\ (Invoked(<<"legacy_min_level", 0>>) /\ LegacyForceChargeHighKey \in DOMAIN params) =>
           /\ LastSent.params.cmdSet = 11 /\ LastSent.params.id = 29
           /\ LastSent.params.discLower = IntVal(lastOp.value)
           /\ LastSent.params.forceChargeHigh = PyInt(params[LegacyForceChargeHighKey])
C6_Witness ==
    /\ Invoked(<<"max_level", 0>>)
    /\ DiscLowerKey \in DOMAIN params /\ params[DiscLowerKey] = IntVal(20)
    /\ LastSent.params.forceChargeHigh = 95
    /\ LastSent.params.discLower = 20

\* C7: when the companion field was never observed, the command still
\* carries it with its default: gridFreq=60 for grid-voltage edits,
\* gridVol=120 for grid-frequency edits (number and select entities),
\* forceChargeHigh=100 for min-level edits, discLower=0 for max-level edits.
HasField(cmd, f, v) == f \in DOMAIN cmd.params /\ cmd.params[f] = v
C7_CompanionDefault ==
    /\ (InvokedKind({"grid_vol_setting", "grid_vol"}) /\ GridFreqKey \notin DOMAIN params)
           => HasField(LastSent, "gridFreq", 60)
    /\ (InvokedKind({"grid_freq_setting", "grid_freq"}) /\ GridVolKey \notin DOMAIN params)
           => HasField(LastSent, "gridVol", 120)
    /\ (InvokedKind({"min_level"}) /\ ForceChargeHighKey \notin DOMAIN params)
           => HasField(LastSent, "forceChargeHigh", 100)
    /\ (InvokedKind({"max_level"}) /\ DiscLowerKey \notin DOMAIN params)
           => HasField(LastSent, "discLower", 0)
C7_Witness ==
    /\ InvokedKind({"grid_vol_setting"})
    /\ GridFreqKey \notin DOMAIN params
    /\ LastSent.params.gridVol = 230
    /\ HasField(LastSent, "gridFreq", 60)

\* C8: every emergency-mode command (cmdSet 11, id 64) carries, for each
\* channel i, the last-known emergency priority and enable flag of the
\* State Document (defaults priority=i, isEnable=1 only when never
\* observed), and the last-known value of the mode not edited (default 0).
KnownOr(key, default) == IF key \in DOMAIN params THEN PyInt(params[key]) ELSE default
C8_EmergencyMerge ==
    InvokedKind({"emergency_backup", "emergency_overload"}) =>
        /\ LastSent.params.cmdSet = 11 /\ LastSent.params.id = 64
        /\ \A i \in LoadChannels :
            /\ LastSent.params.chSta[i + 1].priority = KnownOr(ChStaPriorityKey(i), i)
            /\ LastSent.params.chSta[i + 1].isEnable = KnownOr(ChStaIsEnableKey(i), 1)
        /\ lastOp.entity[1] = "emergency_backup"
               => LastSent.params.overloadMode = KnownOr(OverloadModeKey, 0)
        /\ lastOp.entity[1] = "emergency_overload"
               => LastSent.params.backupMode = KnownOr(BackupModeKey, 0)

\* C9: when ctrlMode=1 and the ctrlSta path of the channel does not resolve,
\* the circuit-mode entity is unavailable and displays none of Grid,
\* Battery and Off.
C9_MissingStaUnavailable ==
    \A i \in LoadChannels :
        (/\ CtrlModeKey(i) \in DOMAIN params
         /\ params[CtrlModeKey(i)] = IntVal(1)
         /\ CtrlStaKey(i) \notin DOMAIN params)
        => /\ ~available[<<"circuit_mode", i>>]
           /\ current_option[<<"circuit_mode", i>>] \notin {"Grid", "Battery", "Off"}

\* C10: a user action (select_option / set_value) on a select, circuit-mode
\* select or text entity with no command strategy hands no command to the
\* transport and leaves the State Document and every displayed value
\* unchanged.
ReadOnlyAction ==
    /\ lastOp'.op \in {"select_option", "set_value"}
    /\ ~command[lastOp'.entity]
C10_ReadOnlyNoOp ==
    [][ReadOnlyAction =>
          UNCHANGED <<params, sent, current_option, native_value, available, changed>>]_vars
C10_Witness ==
    /\ lastOp.op \in {"select_option", "set_value"}
    /\ ~command[lastOp.entity]
    /\ sent = <<>>
    /\ params # EmptyDoc
    /\ \E e \in EntityIds : available[e]

\* C11: a select_option(label) on a dictionary-backed select, or a
\* set_value(text) on a text entity, with a command strategy bound hands
\* exactly one command to the transport and leaves the entity displaying
\* the selected label / the entered text.
PlainKinds ==
    {"grid_vol", "grid_freq", "emergency_backup", "emergency_overload",
     "current_limit", "backup_mode", "circuit_name"}
PlainInvoke ==
    /\ lastOp'.op \in {"select_option", "set_value"}
    /\ lastOp'.entity[1] \in PlainKinds
    /\ CommandBound(lastOp'.entity)
C11_OptimisticPlain ==
    [][PlainInvoke =>
          /\ Len(sent') = Len(sent) + 1
          /\ available'[lastOp'.entity]
          /\ lastOp'.op = "select_option"
                 => current_option'[lastOp'.entity] = lastOp'.option
          /\ lastOp'.op = "set_value"
                 => native_value'[lastOp'.entity] = lastOp'.value]_vars
C11_Witness ==
    /\ InvokedKind({"circuit_name"})
    /\ lastOp.value = "Garage"
    /\ native_value[lastOp.entity] = "Garage"
    /\ Len(sent) = 2
    /\ sent[1].params.cmdSet = 11 /\ sent[1].params.id = 22
    /\ current_option[<<"grid_vol", 0>>] = "240V"

\* C12: when the telemetry update that follows a user action on a writable
\* select or text entity carries, for the entity's field, a value other than
\* the optimistic one, the entity afterwards displays the projection of the
\* telemetry value and no longer the optimistic value.
Disagrees ==
    /\ lastOp.op \in {"select_option", "set_value"}
    /\ lastOp.entity[1] \in PlainKinds
    /\ CommandBound(lastOp.entity)
    /\ lastOp'.op = "telemetry"
    /\ MqttKey(lastOp.entity) \in DOMAIN lastOp'.payload
    /\ lastOp'.payload[MqttKey(lastOp.entity)] # params[MqttKey(lastOp.entity)]
\* the label that exactly one pair of the mapping gives to a raw value
ProjectedLabels(options, v) == {options[n][1] : n \in {m \in 1 .. Len(options) : options[m][2] = v}}
C12_TelemetryCorrects ==
    [][Disagrees =>
          LET e == lastOp.entity
              v == lastOp'.payload[MqttKey(e)]
          IN  IF lastOp.op = "set_value"
              THEN /\ native_value'[e] # lastOp.value
                   /\ native_value'[e] = (IF v = None THEN "" ELSE PyStr(v))
              ELSE /\ ~available'[e] \/ current_option'[e] # lastOp.option
                   /\ available'[e] => {current_option'[e]} = ProjectedLabels(options_dict[e], v)]_vars

\* C13: when a telemetry message carries only ctrlMode or only ctrlSta of a
\* channel and both fields are then stored with ctrlMode in {0,1} and
\* ctrlSta in {0,1,2}, the channel's circuit-mode entity displays the label
\* of the forward formula applied to the stored ctrlMode and the stored
\* ctrlSta, whichever of the two arrived last.
OneFieldOf(i) ==
    /\ lastOp'.op = "telemetry"
    /\ DOMAIN lastOp'.payload \in {{CtrlModeKey(i)}, {CtrlStaKey(i)}}
    /\ CtrlModeKey(i) \in DOMAIN params' /\ CtrlStaKey(i) \in DOMAIN params'
    /\ params'[CtrlModeKey(i)] \in {IntVal(0), IntVal(1)}
    /\ params'[CtrlStaKey(i)] \in {IntVal(0), IntVal(1), IntVal(2)}
C13_SecondaryReResolved ==
    [][\A i \in LoadChannels :
          OneFieldOf(i) =>
              /\ available'[<<"circuit_mode", i>>]
              /\ current_option'[<<"circuit_mode", i>>]
                     = ExpectedMode(params'[CtrlModeKey(i)], params'[CtrlStaKey(i)])]_vars
C13_Witness ==
    \E i \in LoadChannels :
        /\ lastOp.op = "telemetry"
        /\ lastOp.payload = (CtrlStaKey(i) :> IntVal(2))
        /\ CtrlModeKey(i) \in DOMAIN params /\ params[CtrlModeKey(i)] = IntVal(1)
        /\ current_option[<<"circuit_mode", i>>] = "Off"
        /\ sent = <<>>

\* C14: every update of the State Document adds or overwrites only the keys
\* of its payload and every other key keeps its value; the local update of
\* a circuit-mode selection writes only the ctrlMode key of its channel.
WrittenKeys ==
    IF lastOp'.op = "telemetry" THEN DOMAIN lastOp'.payload
    ELSE IF lastOp'.op \in {"select_option", "set_value"} /\ CommandBound(lastOp'.entity)
         THEN {MqttKey(lastOp'.entity)}
         ELSE {}
C14_Frame ==
    [][/\ DOMAIN params' = DOMAIN params \cup WrittenKeys
       /\ \A k \in DOMAIN params \ WrittenKeys : params'[k] = params[k]
       /\ lastOp'.op = "telemetry"
              => \A k \in DOMAIN lastOp'.payload : params'[k] = lastOp'.payload[k]]_vars
C14_Witness ==
    \E i \in LoadChannels :
        /\ Invoked(<<"circuit_mode", i>>)
        /\ lastOp.option = "Grid"
        /\ params[CtrlModeKey(i)] = IntVal(1)
        /\ CtrlStaKey(i) \in DOMAIN params /\ params[CtrlStaKey(i)] = IntVal(2)
        /\ DOMAIN params = {CtrlModeKey(i), CtrlStaKey(i)}

\* C15: each per-channel entity kind of the load channels has exactly one
\* entity for each index 0..9, displayed as channel index+1 and bound to the
\* field path of that index, and every command synthesized by the entity of
\* index i carries i as its channel (ch / chNum), in whatever order the
\* entities are invoked.
PerChannelKinds ==
    {"circuit_mode", "current_limit", "channel_current", "circuit_enabled", "circuit_name"}
PerChannelIds ==
    CircuitModeIds \cup CurrentLimitIds \cup ChannelCurrentIds
        \cup CircuitEnabledIds \cup TextIds
FieldKey(e) ==
    IF e \in EntityIds THEN MqttKey(e)
    ELSE IF e \in NumberIds THEN NumberKey(e)
    ELSE ChStaIsEnableKey(e[2])
ChannelOf(cmd) == IF "ch" \in DOMAIN cmd.params THEN cmd.params.ch ELSE cmd.params.chNum
TitleSuffix(kind) ==
    CASE kind = "circuit_mode" -> " Mode"
      [] kind = "current_limit" -> " Current Limit"
      [] kind = "circuit_name" -> " Name"
SynthesizedBy(e, data) ==
    CASE e[1] = "circuit_mode" ->
             {CatalogCommand(e, MinCorrelationId, v, data) :
                  v \in {CIRCUIT_MODE_OPTIONS[n][2] : n \in 1 .. Len(CIRCUIT_MODE_OPTIONS)}}
      [] e[1] = "current_limit" ->
             {CatalogCommand(e, MinCorrelationId, v, data) :
                  v \in {CHANNEL_CURRENT_OPTIONS[n][2] : n \in 1 .. Len(CHANNEL_CURRENT_OPTIONS)}}
      [] e[1] = "circuit_name" ->
             {CatalogCommand(e, MinCorrelationId, v, data) : v \in NewNames}
      [] e[1] = "channel_current" ->
             {NumberCommand(e, MinCorrelationId, IntVal(v), data) : v \in NewValues(e)}
      [] e[1] = "circuit_enabled" ->
             {EmergencyChannelCommand(MinCorrelationId, e[2], IntVal(v), data) : v \in {0, 1}}
C15_ChannelEnumeration ==
    /\ \A kind \in PerChannelKinds :
           LET K == {e \in PerChannelIds : e[1] = kind}
           IN  /\ Cardinality(K) = 10
               /\ {e[2] : e \in K} = 0 .. 9
    /\ \A e \in PerChannelIds :
           /\ ChannelNum(e[2]) = e[2] + 1
           /\ e[1] \in {"circuit_mode", "current_limit", "circuit_name"}
                  => Title(e) = "Circuit " \o ToString(e[2] + 1) \o TitleSuffix(e[1])
           /\ \E n \in DOMAIN FieldKey(e) : FieldKey(e)[n] = "[" \o ToString(e[2]) \o "]"
           /\ \A cmd \in SynthesizedBy(e, params) : ChannelOf(cmd) = e[2]
    /\ InvokedKind(PerChannelKinds) => ChannelOf(LastSent) = lastOp.entity[2]
C15_Witness ==
    /\ InvokedKind({"channel_current"})
    /\ lastOp.entity[2] = 9
    /\ LastSent.params.chNum = 9
    /\ Len(sent) = 2
    /\ sent[1].params.id = 16 /\ sent[1].params.ch = 0

\* C16: every command handed to the transport by an entity of the public
\* Smart Home Panel carries an id in 100000..999999, moduleType 1,
\* operateType "TCP", version "1.0", and in params the cmdSet and id of the
\* strategy that produced it.
StrategyIds(e) ==
    CASE e[1] = "circuit_mode" -> <<11, 16>>
      [] e[1] \in {"current_limit", "channel_current"} -> <<11, 20>>
      [] e[1] \in {"backup_mode", "backup_channel"} -> <<11, 17>>
      [] e[1] \in {"grid_vol", "grid_freq", "grid_vol_setting", "grid_freq_setting"} -> <<11, 22>>
      [] e[1] \in {"emergency_backup", "emergency_overload"} -> <<11, 64>>
      [] e[1] = "circuit_name" -> <<11, 32>>
      [] e[1] \in {"min_level", "max_level"} -> <<11, 29>>
      [] e[1] = "circuit_enabled" -> <<11, 26>>
      [] e[1] = "eps_mode" -> <<11, 24>>
      [] e = <<"button", "reset">> -> <<1, 20>>
      [] e = <<"button", "selfCheck">> -> <<11, 112>>
      [] e = <<"button", "rtcSync">> -> <<11, 3>>
      [] e = <<"button", "cfgComplete">> -> <<11, 7>>
      [] e = <<"button", "getCfgSta">> -> <<11, 8>>
Framed(cmd) ==
    /\ DOMAIN cmd = {"id", "moduleType", "operateType", "version", "params"}
    /\ cmd.id >= 100000 /\ cmd.id <= 999999
    /\ cmd.moduleType = 1
    /\ cmd.operateType = "TCP"
    /\ cmd.version = "1.0"
    /\ {"cmdSet", "id"} \subseteq DOMAIN cmd.params
C16_MqttFraming ==
    /\ \A n \in 1 .. Len(sent) : Framed(sent[n])
    /\ lastOp.op \in UserOps
           => <<LastSent.params.cmdSet, LastSent.params.id>> = StrategyIds(lastOp.entity)
C16_Witness ==
    /\ lastOp.op = "press" /\ lastOp.entity = <<"button", "rtcSync">>
    /\ Len(sent) = 2
    /\ LastSent.id = MaxCorrelationId
    /\ LastSent.params.cmdSet = 11 /\ LastSent.params.id = 3
    /\ LastSent.params.min = 0
    /\ sent[1].params.cmdSet = 11 /\ sent[1].params.id = 64

\* C17: when the ctrlSta of a backup channel has been observed, the command
\* of a Backup Channel Mode selection (cmdSet 11, id 17) carries the new
\* ctrlMode and sta equal to the last-known ctrlSta of that channel.
C17_BackupModeMerge ==
    (/\ InvokedKind({"backup_mode"})
     /\ BackupCtrlStaKey(lastOp.entity[2]) \in DOMAIN params)
    => /\ LastSent.params.cmdSet = 11 /\ LastSent.params.id = 17
       /\ IntVal(LastSent.params.ctrlMode) = OptionValue(options_dict[lastOp.entity], lastOp.option)
       /\ LastSent.params.sta = PyInt(params[BackupCtrlStaKey(lastOp.entity[2])])

\* C18: the command synthesized for mode Auto on channel ch carries ch,
\* ctrlMode=0 and sta equal to the ctrlSta observed for that channel; sta=0
\* only when the channel's ctrlSta was never observed.
C18_AutoKeepsSta ==
    (InvokedKind({"circuit_mode"}) /\ lastOp.option = "Auto") =>
        LET ch == lastOp.entity[2]
        IN  /\ LastSent.params.ch = ch
            /\ LastSent.params.ctrlMode = 0
            /\ CtrlStaKey(ch) \notin DOMAIN params => LastSent.params.sta = IntVal(0)
            /\ (CtrlStaKey(ch) \in DOMAIN params /\ params[CtrlStaKey(ch)] # None)
                   => LastSent.params.sta = params[CtrlStaKey(ch)]

\* C19: each evaluation of an entity whose field resolves signals a change
\* exactly when the newly projected value differs from the value displayed
\* before, and afterwards the entity displays the newly projected value
\* (the empty string for a text entity whose raw value is null).
C19_ChangeByEquality ==
    [][\A e \in EntityIds :
          MqttKey(e) \in DOMAIN params' =>
              IF e \in TextIds
              THEN /\ changed'[e] <=> (native_value'[e] # native_value[e])
                   /\ native_value'[e] = (IF params'[MqttKey(e)] = None THEN ""
                                          ELSE PyStr(params'[MqttKey(e)]))
              ELSE changed'[e] <=> (current_option'[e] # current_option[e])]_vars

\* C20: when the reported pair (ctrlMode, ctrlSta) of a channel is outside
\* {0,1} x {0,1,2}, the channel's circuit-mode entity is unavailable and
\* displays none of the four labels.
C20_OutOfDomainFailClosed ==
    \A i \in LoadChannels :
        (/\ CtrlModeKey(i) \in DOMAIN params
         /\ CtrlStaKey(i) \in DOMAIN params
         /\ \/ params[CtrlModeKey(i)] \notin {IntVal(0), IntVal(1)}
            \/ params[CtrlStaKey(i)] \notin {IntVal(0), IntVal(1), IntVal(2)})
        => /\ ~available[<<"circuit_mode", i>>]
           /\ current_option[<<"circuit_mode", i>>] \notin LabelSet(CIRCUIT_MODE_OPTIONS)

\* C21: when the user edits one field of a two-parameter command and then,
\* with no telemetry in between, edits its companion, the second command
\* carries the value of the first edit for the first field and the value of
\* the second edit for the companion (battery levels; grid voltage and
\* frequency, by number or select).
PairField(kind) ==
    CASE kind = "min_level" -> "discLower"
      [] kind = "max_level" -> "forceChargeHigh"
      [] kind \in {"grid_vol_setting", "grid_vol"} -> "gridVol"
      [] kind \in {"grid_freq_setting", "grid_freq"} -> "gridFreq"
PairKinds ==
    {"min_level", "max_level", "grid_vol_setting", "grid_vol", "grid_freq_setting", "grid_freq"}
LevelKinds == {"min_level", "max_level"}
IsPairEdit(op) ==
    /\ op.op \in {"set_native_value", "select_option"}
    /\ op.entity[1] \in PairKinds
EditedValue(op) ==
    IF op.op = "set_native_value" THEN op.value
    ELSE PyInt(OptionValue(options_dict[op.entity], op.option))
CompanionEdits ==
    /\ IsPairEdit(lastOp) /\ IsPairEdit(lastOp')
    /\ (lastOp.entity[1] \in LevelKinds) <=> (lastOp'.entity[1] \in LevelKinds)
    /\ PairField(lastOp.entity[1]) # PairField(lastOp'.entity[1])
IsCommand(cmd, cmdSet, cmdId) == cmd.params.cmdSet = cmdSet /\ cmd.params.id = cmdId
C23_WellFormedOption ==
    \A e \in SelectIds :
        /\ current_option[e] \in {""} \cup LabelSet(CatalogOptions(e))
        /\ options_dict[e] = CatalogOptions(e)
        /\ Options(e) = [n \in 1 .. Len(CatalogOptions(e)) |-> CatalogOptions(e)[n][1]]
C23_Witness ==
    /\ InvokedKind({"circuit_mode"})
    /\ available[lastOp.entity]
    /\ current_option[lastOp.entity] = "Grid"
    /\ available[<<"backup_mode", 0>>]
    /\ current_option[<<"backup_mode", 0>>] = "Manual"
    /\ current_option[<<"grid_vol", 0>>] = ""

\* C24: the command an entity hands to the transport is determined, in every
\* field but the top-level correlation id, by the strategy, the new value
\* and the State Document at the time of the call (RTC sync excepted), and
\* the call changes no key of the State Document other than the field the
\* entity's local update writes.
Unid(cmd) == [cmd EXCEPT !.id = 0]
\* the command of the strategy of the entity of a user action, for a drawn id
StrategyCommand(op, rid, data) ==
    CASE op.op = "select_option" ->
             CatalogCommand(op.entity, rid, OptionValue(options_dict[op.entity], op.option), data)
      [] op.op = "set_value" -> CatalogCommand(op.entity, rid, op.value, data)
      [] op.op = "set_native_value" -> NumberCommand(op.entity, rid, IntVal(op.value), data)
      [] op.op = "turn" /\ op.entity[1] = "circuit_enabled" ->
             EmergencyChannelCommand(rid, op.entity[2], IntVal(op.value), data)
      [] op.op = "turn" /\ op.entity[1] = "eps_mode" -> EpsCommand(rid, op.value)
      [] op.op = "turn" /\ op.entity[1] = "backup_channel" ->
             BackupSwitchCommand(rid, op.entity[2], op.value)
      [] op.op = "press" ->
             ButtonCommand(op.entity[2], rid, CHOOSE now \in Clock : TRUE)
LocalKeys(op) ==
    CASE op.op \in {"select_option", "set_value"} -> {MqttKey(op.entity)}
      [] op.op = "set_native_value" -> {NumberKey(op.entity)}
      [] op.op = "turn" /\ op.entity[1] = "circuit_enabled" -> {ChStaIsEnableKey(op.entity[2])}
      [] op.op = "turn" /\ op.entity[1] = "eps_mode" -> {EpsKey}
      [] op.op = "turn" /\ op.entity[1] = "backup_channel" -> {BackupCtrlStaKey(op.entity[2])}
      [] op.op = "press" -> {}
Synthesis ==
    /\ lastOp'.op \in UserOps
    /\ lastOp'.entity # <<"button", "rtcSync">>
    /\ Len(sent') = Len(sent) + 1
OlderLabel(i) ==
    ModeDictUpdateValue("", [ctrlMode |-> params[CtrlModeKey(i)],
                             ctrlSta |-> params[CtrlStaKey(i)]])
C25_NewerExtendsOlder ==
    /\ \A i \in LoadChannels :
           (/\ CtrlModeKey(i) \in DOMAIN params
            /\ CtrlStaKey(i) \in DOMAIN params
            /\ OlderLabel(i).ret)
           => /\ available[<<"circuit_mode", i>>]
              /\ current_option[<<"circuit_mode", i>>] = OlderLabel(i).current_option
    /\ (InvokedKind({"circuit_mode"}) /\ lastOp.option \in {"Grid", "Battery", "Off"}) =>
           LET older == ModeDictCommand(lastOp.entity[2], OptionValue(MODES, lastOp.option))
           IN  /\ LastSent.params.ch = older.params.ch
               /\ IntVal(LastSent.params.ctrlMode) = older.params.ctrlMode
               /\ LastSent.params.sta = older.params.sta
               /\ LastSent.params.cmdSet = 11 /\ older.params.cmdSet = 11
               /\ LastSent.params.id = 16 /\ older.params.id = 16
C25_Witness ==
    /\ InvokedKind({"circuit_mode"})
    /\ lastOp.option = "Off"
    /\ LastSent.params.sta = IntVal(2)
    /\ CtrlStaKey(lastOp.entity[2]) \in DOMAIN params
    /\ OlderLabel(lastOp.entity[2]).ret
    /\ OlderLabel(lastOp.entity[2]).current_option = "Off"
    /\ current_option[lastOp.entity] = "Off"

====
